---- MODULE Spec2Model ----
(***************************************************************************)
(* Model of tartoshi/funding-rate-tracker: fundingrate.py (funding-rate    *)
(* tracker) and spotstockarb.py (stock vs. perp arbitrage calculator).     *)
(*                                                                         *)
(* Python floats are modelled as exact rationals [n, d] in lowest terms    *)
(* with d > 0; the IEEE value NaN is the record with d = 0.                *)
(***************************************************************************)
EXTENDS Integers, Sequences, FiniteSets, TLC

VARIABLES
    tool,             \* which script runs: "fundingrate" or "spotstockarb"
    pc,               \* position of the script
    clock,            \* wall clock, in whole seconds (datetime.now())
    coin,             \* fundingrate: the coin entered
    hours_back,       \* the hours entered (0 until entered)
    starting_amount,  \* spotstockarb: the parsed starting amount
    stock_ticker,     \* spotstockarb: the stock ticker entered
    hl_ticker,        \* spotstockarb: the Hyperliquid ticker entered
    stock_data,       \* spotstockarb: rows of the yfinance frame
    hl_candles,       \* spotstockarb: candleSnapshot response
    funding_data,     \* spotstockarb: fundingHistory response
    aligned,          \* spotstockarb: align_data's return value
    results,          \* spotstockarb: calculate_arb_pnl's outcome
    raw_data,         \* fundingrate: fundingHistory response
    formatted_data,   \* fundingrate: format_funding_data's return value
    avg_rate,         \* fundingrate: calculate_average_funding's value
    avg_annualized,   \* fundingrate: annualize_rate(avg_rate)
    requests,         \* network requests of the current loop iteration, with outcomes
    files,            \* the output directory: file name -> content
    writes,           \* CSV files opened for writing in the current iteration
    printed,          \* last message class printed by the current iteration
    queries           \* loop iterations that got past the prompts (at most MaxQueries)

vars == <<tool, pc, clock, coin, hours_back, starting_amount, stock_ticker,
          hl_ticker, stock_data, hl_candles, funding_data, aligned, results,
          raw_data, formatted_data, avg_rate, avg_annualized, requests,
          files, writes, printed, queries>>

(***************************************************************************)
(* Bounds of the model.                                                    *)
(***************************************************************************)
MaxHour == 2
MaxFunding == 3
MaxRecords == 3
MaxQueries == 2
MaxClock == 1

Hours == 0 .. MaxHour

(***************************************************************************)
(* Float arithmetic.                                                       *)
(***************************************************************************)
RECURSIVE GCD(_, _)
GCD(a, b) == IF b = 0 THEN a ELSE GCD(b, a % b)

Abs(x) == IF x < 0 THEN -x ELSE x

NaN == [n |-> 0, d |-> 0]

Rat(n, d) ==
    IF d = 0 THEN NaN
    ELSE LET g == GCD(Abs(n), Abs(d))
             s == IF d < 0 THEN -1 ELSE 1
         IN  [n |-> s * (n \div g), d |-> Abs(d) \div g]

Zero == Rat(0, 1)

IsNaN(a) == a.d = 0

RNeg(a) == [n |-> -a.n, d |-> a.d]

RAdd(a, b) ==
    IF IsNaN(a) \/ IsNaN(b) THEN NaN
    ELSE LET g == GCD(a.d, b.d)
         IN  Rat(a.n * (b.d \div g) + b.n * (a.d \div g), (a.d \div g) * b.d)

RSub(a, b) == RAdd(a, RNeg(b))

RMul(a, b) ==
    IF IsNaN(a) \/ IsNaN(b) THEN NaN
    ELSE LET g1 == GCD(Abs(a.n), b.d)
             g2 == GCD(Abs(b.n), a.d)
             h1 == IF g1 = 0 THEN 1 ELSE g1
             h2 == IF g2 = 0 THEN 1 ELSE g2
         IN  Rat((a.n \div h1) * (b.n \div h2), (a.d \div h2) * (b.d \div h1))

\* a / b for b # 0 (Python raises ZeroDivisionError for b = 0: see CanDivide)
RDiv(a, b) ==
    IF IsNaN(a) \/ IsNaN(b) THEN NaN
    ELSE RMul(a, Rat(b.d, b.n))

CanDivide(b) == IsNaN(b) \/ b.n # 0

\* a <= b; every comparison with NaN is false
RLe(a, b) == ~IsNaN(a) /\ ~IsNaN(b) /\ a.n * b.d <= b.n * a.d

\* a == b; NaN is not equal to itself
REq(a, b) == ~IsNaN(a) /\ ~IsNaN(b) /\ a = b

\* float(s) of a decimal numeral: raw prices are whole numbers
FloatOf(s) == Rat(s, 1)

\* float(s) of a funding-rate numeral, given in millionths ("0.000013")
FloatOfRate(s) == Rat(s, 1000000)

\* the nearest integer, ties to even
RoundHalfEven(a) ==
    LET q == a.n \div a.d
        rem == a.n - q * a.d
    IN  IF 2 * rem < a.d THEN q
        ELSE IF 2 * rem > a.d THEN q + 1
        ELSE IF q % 2 = 0 THEN q ELSE q + 1

RECURSIVE Pow10(_)
Pow10(k) == IF k = 0 THEN 1 ELSE 10 * Pow10(k - 1)

\* f"{a:.kf}": the decimal numeral with k places, as its count of 10^-k units
Fmt(a, k) == RoundHalfEven(RMul(a, Rat(Pow10(k), 1)))

(***************************************************************************)
(* spotstockarb.py: align_data                                             *)
(***************************************************************************)
\* (ts // 3600) * 3600
HourBucket(ts) == (ts \div 3600) * 3600

\* candle["t"] // 1000, record["time"] // 1000
MsToSeconds(t) == t \div 1000

\* d[k] = v on a dict (a later assignment overwrites an earlier one)
DictPut(d, k, v) == (k :> v) @@ d

EmptyDict == [k \in {} |-> 0]

RECURSIVE HlPricesFrom(_, _, _)
HlPricesFrom(candles, i, d) ==
    IF i > Len(candles) THEN d
    ELSE HlPricesFrom(candles, i + 1,
            DictPut(d, HourBucket(MsToSeconds(candles[i].t)),
                    [open |-> FloatOf(candles[i].o), close |-> FloatOf(candles[i].c)]))

HlPrices(candles) == HlPricesFrom(candles, 1, EmptyDict)

RECURSIVE FundingRatesFrom(_, _, _)
FundingRatesFrom(records, i, d) ==
    IF i > Len(records) THEN d
    ELSE FundingRatesFrom(records, i + 1,
            DictPut(d, HourBucket(MsToSeconds(records[i].time)),
                    FloatOfRate(records[i].fundingRate)))

\* the dict filled so that the first record of an hour is kept
RECURSIVE FundingRatesFirstFrom(_, _, _)
FundingRatesFirstFrom(records, i, d) ==
    IF i > Len(records) THEN d
    ELSE FundingRatesFirstFrom(records, i + 1,
            IF HourBucket(MsToSeconds(records[i].time)) \in DOMAIN d THEN d
            ELSE DictPut(d, HourBucket(MsToSeconds(records[i].time)),
                         FloatOfRate(records[i].fundingRate)))

FundingRatesFirstWins(records) == FundingRatesFirstFrom(records, 1, EmptyDict)

FundingRates(records) == FundingRatesFrom(records, 1, EmptyDict)

RECURSIVE StockPricesFrom(_, _, _)
StockPricesFrom(rows, i, d) ==
    IF i > Len(rows) THEN d
    ELSE StockPricesFrom(rows, i + 1,
            DictPut(d, HourBucket(rows[i].ts),
                    [open |-> FloatOf(rows[i].Open), close |-> FloatOf(rows[i].Close)]))

StockPrices(rows) == StockPricesFrom(rows, 1, EmptyDict)

SetMax(S) == CHOOSE x \in S : \A y \in S : y <= x
SetMin(S) == CHOOSE x \in S : \A y \in S : x <= y

\* sorted(S)
RECURSIVE Sorted(_)
Sorted(S) == IF S = {} THEN <<>> ELSE <<SetMin(S)>> \o Sorted(S \ {SetMin(S)})

\* funding_rates.get(hour_ts, 0.0)
FundingGet(funding_rates, hour_ts) ==
    IF hour_ts \in DOMAIN funding_rates THEN funding_rates[hour_ts] ELSE Zero

\* the comparison of the list comprehension reversed
EarlierStockHoursReversed(stock_prices, hour_ts) ==
    {h \in DOMAIN stock_prices : h > hour_ts}

\* [h for h in stock_prices.keys() if h < hour_ts]
EarlierStockHours(stock_prices, hour_ts) ==
    {h \in DOMAIN stock_prices : h < hour_ts}

Entry(hour_ts, stock_open, stock_close, hl, rate, market_open) ==
    [timestamp |-> hour_ts, stock_open |-> stock_open, stock_close |-> stock_close,
     hl_open |-> hl.open, hl_close |-> hl.close, funding_rate |-> rate,
     market_open |-> market_open]

\* last_stock_price is None / a float: <<>> / <<price>>
None == <<>>

\* One iteration of the loop over all_hl_hours; st = [last, aligned].
AlignStep(st, hour_ts, stock_prices, hl_prices, funding_rates) ==
    LET rate == FundingGet(funding_rates, hour_ts)
        hl == hl_prices[hour_ts]
    IN  IF hour_ts \in DOMAIN stock_prices
        THEN [last |-> <<stock_prices[hour_ts].close>>,
              aligned |-> Append(st.aligned,
                  Entry(hour_ts, stock_prices[hour_ts].open,
                        stock_prices[hour_ts].close, hl, rate, TRUE))]
        ELSE IF st.last # None
        THEN [last |-> st.last,
              aligned |-> Append(st.aligned,
                  Entry(hour_ts, st.last[1], st.last[1], hl, rate, FALSE))]
        ELSE LET earlier == EarlierStockHours(stock_prices, hour_ts)
             IN  IF earlier # {}
                 THEN LET p == stock_prices[SetMax(earlier)].close
                      IN  [last |-> <<p>>,
                           aligned |-> Append(st.aligned,
                               Entry(hour_ts, p, p, hl, rate, FALSE))]
                 ELSE st

RECURSIVE AlignLoop(_, _, _, _, _, _)
AlignLoop(all_hl_hours, i, st, stock_prices, hl_prices, funding_rates) ==
    IF i > Len(all_hl_hours) THEN st.aligned
    ELSE AlignLoop(all_hl_hours, i + 1,
            AlignStep(st, all_hl_hours[i], stock_prices, hl_prices, funding_rates),
            stock_prices, hl_prices, funding_rates)

align_data(stock, candles, funding) ==
    LET hl_prices == HlPrices(candles)
        all_hl_hours == Sorted(DOMAIN hl_prices)
    IN  AlignLoop(all_hl_hours, 1, [last |-> None, aligned |-> <<>>],
                  StockPrices(stock), hl_prices, FundingRates(funding))

(***************************************************************************)
(* spotstockarb.py: calculate_arb_pnl                                      *)
(***************************************************************************)
HalfAmount(amount) == RDiv(amount, Rat(2, 1))

\* (close - open) / open
PctChange(open, close) == RDiv(RSub(close, open), open)

StockPnl(half_amount, entry) ==
    RMul(half_amount, PctChange(entry.stock_open, entry.stock_close))

\* the short leg computed as if it were long
HlPnlLong(half_amount, entry) ==
    RMul(half_amount, PctChange(entry.hl_open, entry.hl_close))

HlPnl(half_amount, entry) ==
    RMul(RNeg(half_amount), PctChange(entry.hl_open, entry.hl_close))

FundingProfit(half_amount, entry) == RMul(half_amount, entry.funding_rate)

\* the row of one iteration, given the running totals it reports
PnlRow(entry, half_amount, cumulative_pnl, cumulative_funding) ==
    [timestamp |-> entry.timestamp,
     stock_price |-> entry.stock_close,
     hl_price |-> entry.hl_close,
     stock_pnl |-> StockPnl(half_amount, entry),
     hl_pnl |-> HlPnl(half_amount, entry),
     hour_pnl |-> RAdd(StockPnl(half_amount, entry), HlPnl(half_amount, entry)),
     funding_rate |-> entry.funding_rate,
     funding_profit |-> FundingProfit(half_amount, entry),
     cumulative_pnl |-> cumulative_pnl,
     cumulative_funding |-> cumulative_funding,
     market_open |-> entry.market_open]

\* the running totals assigned (=) where the code adds (+=)
CalcStepNoCarry(st, entry, half_amount) ==
    LET row == PnlRow(entry, half_amount, Zero, Zero)
    IN  [cumulative_pnl |-> row.hour_pnl,
         cumulative_funding |-> row.funding_profit,
         rows |-> Append(st.rows,
            PnlRow(entry, half_amount, row.hour_pnl, row.funding_profit))]

\* One iteration of the loop over aligned_data;
\* st = [cumulative_pnl, cumulative_funding, rows].
CalcStep(st, entry, half_amount) ==
    LET row == PnlRow(entry, half_amount, Zero, Zero)
        cumulative_pnl == RAdd(st.cumulative_pnl, row.hour_pnl)
        cumulative_funding == RAdd(st.cumulative_funding, row.funding_profit)
    IN  [cumulative_pnl |-> cumulative_pnl,
         cumulative_funding |-> cumulative_funding,
         rows |-> Append(st.rows,
            PnlRow(entry, half_amount, cumulative_pnl, cumulative_funding))]

\* the divisions of one iteration raise ZeroDivisionError
Raises(entry) == ~CanDivide(entry.stock_open) \/ ~CanDivide(entry.hl_open)

RECURSIVE CalcLoop(_, _, _, _)
CalcLoop(aligned_data, i, st, half_amount) ==
    IF i > Len(aligned_data) THEN [raised |-> FALSE, rows |-> st.rows]
    ELSE IF Raises(aligned_data[i]) THEN [raised |-> TRUE, rows |-> <<>>]
    ELSE CalcLoop(aligned_data, i + 1, CalcStep(st, aligned_data[i], half_amount),
                  half_amount)

\* [raised |-> TRUE] when the call raises instead of returning
calculate_arb_pnl(aligned_data, amount) ==
    CalcLoop(aligned_data, 1,
             [cumulative_pnl |-> Zero, cumulative_funding |-> Zero, rows |-> <<>>],
             HalfAmount(amount))

NoResults == [raised |-> FALSE, rows |-> <<>>]

\* the summary of main() and save_to_csv()
TotalPnl(rows) == rows[Len(rows)].cumulative_pnl
TotalFunding(rows) == rows[Len(rows)].cumulative_funding
MarketHours(rows) == Cardinality({i \in DOMAIN rows : rows[i].market_open})
NonMarketHours(rows) == Len(rows) - MarketHours(rows)

(***************************************************************************)
(* Inputs of align_data and calculate_arb_pnl.                             *)
(***************************************************************************)
Absent == <<>>

\* the chosen hours of f, in increasing order, each with its value
Chosen(f) ==
    LET hs == Sorted({h \in Hours : f[h] # Absent})
    IN  [i \in 1 .. Len(hs) |-> <<hs[i], f[hs[i]]>>]

Choices(Pairs) == {Chosen(f) : f \in [Hours -> {Absent} \cup Pairs]}

\* yfinance hourly bars open on the half hour; the index is in seconds
StockFrames(Pairs) ==
    {[i \in 1 .. Len(c) |->
        [ts |-> c[i][1] * 3600 + 1800, Open |-> c[i][2][1], Close |-> c[i][2][2]]] :
     c \in Choices(Pairs)}

\* candleSnapshot: one candle per hour, "t" the opening time in ms
CandleLists(Pairs) ==
    {[i \in 1 .. Len(c) |->
        [t |-> c[i][1] * 3600 * 1000, o |-> c[i][2][1], c |-> c[i][2][2]]] :
     c \in Choices(Pairs)}

\* fundingHistory: records in time order, "time" a few ms after the hour
FundingRecords(RateSet) ==
    {[time |-> h * 3600 * 1000 + 76, fundingRate |-> r] : h \in Hours, r \in RateSet}

FundingLists(RateSet, maxLen) ==
    {s \in UNION {[1 .. n -> FundingRecords(RateSet)] : n \in 0 .. maxLen} :
        \A i \in 1 .. Len(s) : \A j \in 1 .. Len(s) : i < j => s[i].time <= s[j].time}

(***************************************************************************)
(* The functions of spotstockarb.py applied to drawn inputs.               *)
(***************************************************************************)
InitIdle ==
    /\ clock = 0
    /\ coin = ""
    /\ hours_back = 0
    /\ stock_ticker = ""
    /\ hl_ticker = ""
    /\ raw_data = <<>>
    /\ formatted_data = <<>>
    /\ avg_rate = Zero
    /\ avg_annualized = Zero
    /\ requests = <<>>
    /\ files = EmptyDict
    /\ writes = 0
    /\ printed = "none"
    /\ queries = 0

InitArb(Stocks, Candles, Fundings, Amounts) ==
    /\ tool = "spotstockarb"
    /\ pc = "align_data"
    /\ stock_data \in Stocks
    /\ hl_candles \in Candles
    /\ funding_data \in Fundings
    /\ starting_amount \in Amounts
    /\ aligned = <<>>
    /\ results = NoResults
    /\ InitIdle

CallAlign ==
    /\ pc = "align_data"
    /\ aligned' = align_data(stock_data, hl_candles, funding_data)
    /\ pc' = "calculate_arb_pnl"
    /\ UNCHANGED <<tool, clock, coin, hours_back, starting_amount, stock_ticker,
                   hl_ticker, stock_data, hl_candles, funding_data, results,
                   raw_data, formatted_data, avg_rate, avg_annualized, requests,
                   files, writes, printed, queries>>

CallCalc ==
    /\ pc = "calculate_arb_pnl"
    /\ results' = calculate_arb_pnl(aligned, starting_amount)
    /\ pc' = "returned"
    /\ UNCHANGED <<tool, clock, coin, hours_back, starting_amount, stock_ticker,
                   hl_ticker, stock_data, hl_candles, funding_data, aligned,
                   raw_data, formatted_data, avg_rate, avg_annualized, requests,
                   files, writes, printed, queries>>

NextArb == CallAlign \/ CallCalc

\* stock bars and candles over every set of hours
InitAlign ==
    InitArb(StockFrames({<<1, 2>>, <<2, 1>>, <<2, 0>>}),
            CandleLists({<<2, 2>>}),
            FundingLists({1}, 1),
            {Rat(1000, 1)})

SpecAlign == InitAlign /\ [][NextArb]_vars

(***************************************************************************)
(* Claims about align_data.                                                *)
(***************************************************************************)
AlignReturned == pc \in {"calculate_arb_pnl", "returned"}

\* the stock bars whose hour bucket is earlier than hour ts
StockBarsBefore(ts) == {i \in DOMAIN stock_data : HourBucket(stock_data[i].ts) < ts}

MostRecentBarBefore(ts) ==
    CHOOSE i \in StockBarsBefore(ts) :
        \A j \in StockBarsBefore(ts) :
            HourBucket(stock_data[j].ts) <= HourBucket(stock_data[i].ts)

\* C1: every emitted entry of an hour without a stock bar (market_open false)
\* has stock_open and stock_close equal to the close of the most recent stock
\* bar whose hour bucket is earlier than the entry's hour.
C1_FrozenAtMostRecentClose ==
    AlignReturned =>
        \A k \in DOMAIN aligned :
            ~aligned[k].market_open =>
                /\ StockBarsBefore(aligned[k].timestamp) # {}
                /\ LET close == FloatOf(stock_data[MostRecentBarBefore(aligned[k].timestamp)].Close)
                   IN  /\ aligned[k].stock_open = close
                       /\ aligned[k].stock_close = close

CandleHours == {HourBucket(MsToSeconds(hl_candles[i].t)) : i \in DOMAIN hl_candles}
StockHours == {HourBucket(stock_data[i].ts) : i \in DOMAIN stock_data}
EmittedHours == {aligned[k].timestamp : k \in DOMAIN aligned}

\* C2: the entries are in strictly increasing timestamp order (so at most one
\* per hour bucket), and hour h has an entry exactly when an HL candle falls in
\* bucket h and some stock bar lies in a bucket at or before h.
C2_EmittedHours ==
    AlignReturned =>
        /\ \A i \in DOMAIN aligned : \A j \in DOMAIN aligned :
              i < j => aligned[i].timestamp < aligned[j].timestamp
        /\ EmittedHours = {h \in CandleHours : \E s \in StockHours : s <= h}

\* an HL hour before every stock bar is skipped, a later one is emitted for an
\* hour without a stock bar
C2_Witness ==
    /\ AlignReturned
    /\ \E h \in CandleHours : h \notin EmittedHours
    /\ \E k \in DOMAIN aligned : ~aligned[k].market_open

(***************************************************************************)
(* Claims about the funding rate of the aligned entries.                   *)
(***************************************************************************)
\* funding lists over every multiset of hours, candles over every set of
\* hours, at most one stock bar
InitFunding ==
    InitArb({f \in StockFrames({<<2, 2>>}) : Len(f) <= 1},
            CandleLists({<<2, 2>>}),
            FundingLists({1, 3}, MaxFunding),
            {Rat(1000, 1)})

SpecFunding == InitFunding /\ [][NextArb]_vars

\* the funding records whose timestamp falls in hour bucket h
RecordsIn(h) ==
    {i \in DOMAIN funding_data : HourBucket(MsToSeconds(funding_data[i].time)) = h}

\* the rate the claim gives hour h
ClaimedRate(h) ==
    IF RecordsIn(h) = {} THEN Zero
    ELSE FloatOfRate(funding_data[SetMax(RecordsIn(h))].fundingRate)

RECURSIVE SumOfClaimedProfit(_)
SumOfClaimedProfit(hs) ==
    IF hs = {} THEN Zero
    ELSE LET h == SetMin(hs)
         IN  RAdd(RMul(RDiv(starting_amount, Rat(2, 1)), ClaimedRate(h)),
                  SumOfClaimedProfit(hs \ {h}))

\* C10: the funding_rate of each emitted entry is the rate of the last
\* funding record that falls in the entry's hour bucket, and 0 when none
\* does; the total funding profit is the sum over the emitted hours only.
C10_FundingRateOfHour ==
    /\ AlignReturned =>
          \A k \in DOMAIN aligned :
              aligned[k].funding_rate = ClaimedRate(aligned[k].timestamp)
    /\ (pc = "returned" /\ ~results.raised /\ results.rows # <<>>) =>
          results.rows[Len(results.rows)].cumulative_funding
              = SumOfClaimedProfit(EmittedHours)

\* one emitted hour holds two records with different rates, another emitted
\* hour holds none, and a record falls in an hour that has no entry
C10_Witness ==
    /\ pc = "returned"
    /\ ~results.raised
    /\ \E k \in DOMAIN aligned :
          \E i \in RecordsIn(aligned[k].timestamp) :
              \E j \in RecordsIn(aligned[k].timestamp) :
                  i < j /\ funding_data[i].fundingRate # funding_data[j].fundingRate
    /\ \E k \in DOMAIN aligned : RecordsIn(aligned[k].timestamp) = {}
    /\ \E i \in DOMAIN funding_data :
          HourBucket(MsToSeconds(funding_data[i].time)) \notin EmittedHours

(***************************************************************************)
(* Claims about calculate_arb_pnl.                                         *)
(***************************************************************************)
\* prices that rise, fall and are zero; a starting amount with a fractional half
InitPnl ==
    InitArb(StockFrames({<<1, 2>>, <<2, 3>>}),
            CandleLists({<<1, 2>>, <<2, 1>>, <<0, 1>>}),
            FundingLists({2}, 1),
            {Rat(3, 1)})

SpecPnl == InitPnl /\ [][NextArb]_vars

CalcReturned == pc = "returned" /\ ~results.raised

ClaimedHalf == RDiv(starting_amount, Rat(2, 1))

\* the percentage change the claim speaks of, as a fraction of the open
ClaimedPct(open, close) == RDiv(RSub(close, open), open)

\* C5: in every row, with half of the starting amount as the notional of each
\* leg, stock_pnl = half * (stock_close - stock_open) / stock_open, hl_pnl =
\* -half * (hl_close - hl_open) / hl_open, hour_pnl = stock_pnl + hl_pnl and
\* funding_profit = half * funding_rate; hour_pnl is 0 when both prices move
\* by the same percentage and stock_pnl is 0 in a non-market hour.
C5_LegPnl ==
    CalcReturned =>
        \A i \in DOMAIN results.rows :
            LET e == aligned[i]
                r == results.rows[i]
            IN  /\ r.stock_pnl = RMul(ClaimedHalf, ClaimedPct(e.stock_open, e.stock_close))
                /\ r.hl_pnl = RNeg(RMul(ClaimedHalf, ClaimedPct(e.hl_open, e.hl_close)))
                /\ r.hour_pnl = RAdd(r.stock_pnl, r.hl_pnl)
                /\ r.funding_profit = RMul(ClaimedHalf, e.funding_rate)
                /\ (ClaimedPct(e.stock_open, e.stock_close)
                        = ClaimedPct(e.hl_open, e.hl_close)) => r.hour_pnl = Zero
                /\ ~e.market_open => r.stock_pnl = Zero

\* a market hour in which both prices rise by the same percentage, and a
\* non-market hour in which the perp price moves
C5_Witness ==
    /\ CalcReturned
    /\ \E i \in DOMAIN results.rows :
          /\ aligned[i].market_open
          /\ ClaimedPct(aligned[i].stock_open, aligned[i].stock_close)
                = ClaimedPct(aligned[i].hl_open, aligned[i].hl_close)
          /\ results.rows[i].stock_pnl # Zero
    /\ \E i \in DOMAIN results.rows :
          ~aligned[i].market_open /\ results.rows[i].hl_pnl # Zero

RECURSIVE SumHourPnl(_, _)
SumHourPnl(rows, i) == IF i = 0 THEN Zero ELSE RAdd(SumHourPnl(rows, i - 1), rows[i].hour_pnl)

RECURSIVE SumFundingProfit(_, _)
SumFundingProfit(rows, i) ==
    IF i = 0 THEN Zero ELSE RAdd(SumFundingProfit(rows, i - 1), rows[i].funding_profit)

\* C9: calculate_arb_pnl returns one row per aligned entry in the same order;
\* in row i cumulative_pnl is the sum of hour_pnl over rows 0..i and
\* cumulative_funding the sum of funding_profit over rows 0..i; the summary
\* totals are the sums over all rows and market hours plus non-market hours
\* is the number of rows.
C9_RunningTotals ==
    CalcReturned =>
        /\ Len(results.rows) = Len(aligned)
        /\ \A i \in DOMAIN results.rows :
              /\ results.rows[i].timestamp = aligned[i].timestamp
              /\ results.rows[i].cumulative_pnl = SumHourPnl(results.rows, i)
              /\ results.rows[i].cumulative_funding = SumFundingProfit(results.rows, i)
        /\ results.rows # <<>> =>
              /\ TotalPnl(results.rows) = SumHourPnl(results.rows, Len(results.rows))
              /\ TotalFunding(results.rows)
                    = SumFundingProfit(results.rows, Len(results.rows))
              /\ NonMarketHours(results.rows)
                    = Cardinality({i \in DOMAIN results.rows : ~aligned[i].market_open})
              /\ MarketHours(results.rows) + NonMarketHours(results.rows)
                    = Len(results.rows)

\* three rows whose hour_pnl is not zero, in market and non-market hours, with
\* a funding profit that later rows carry
C9_Witness ==
    /\ CalcReturned
    /\ Len(results.rows) >= 3
    /\ \A i \in DOMAIN results.rows :
          results.rows[i].hour_pnl # Zero
    /\ \E i \in DOMAIN results.rows :
          i < Len(results.rows) /\ results.rows[i].funding_profit # Zero
    /\ MarketHours(results.rows) > 0
    /\ NonMarketHours(results.rows) > 0

(***************************************************************************)
(* fundingrate.py: annualize_rate, format_funding_data,                    *)
(* calculate_average_funding, save_to_csv                                  *)
(***************************************************************************)
\* the rate taken per day where the code takes it per hour
annualize_rate_daily(hourly_rate) == RMul(hourly_rate, Rat(365, 1))

annualize_rate(hourly_rate) == RMul(hourly_rate, Rat(8760, 1))

Percent(a) == RMul(a, Rat(100, 1))

\* strftime("%Y-%m-%d %H:%M") of the record's time: whole minutes
MinuteOf(time_ms) == (time_ms \div 1000) \div 60

FormatRecord(record) ==
    LET funding_rate == FloatOfRate(record.fundingRate)
        premium == FloatOfRate(record.premium)
        annualized == annualize_rate(funding_rate)
    IN  [time_utc |-> MinuteOf(record.time),
         funding_rate |-> Fmt(funding_rate, 8),
         funding_rate_pct |-> Fmt(Percent(funding_rate), 6),
         annualized_pct |-> Fmt(Percent(annualized), 2),
         premium |-> Fmt(premium, 8),
         coin |-> record.coin]

format_funding_data(data) == [i \in 1 .. Len(data) |-> FormatRecord(data[i])]

\* sum(rates)
RECURSIVE SumRates(_, _)
SumRates(data, i) ==
    IF i = 0 THEN Zero
    ELSE RAdd(SumRates(data, i - 1), FloatOfRate(data[i].fundingRate))

calculate_average_funding(data) ==
    IF data = <<>> THEN Zero
    ELSE RDiv(SumRates(data, Len(data)), Rat(Len(data), 1))

\* the two summary lines save_to_csv appends
CsvSummary(avg) ==
    [hourly |-> Fmt(avg, 8),
     hourly_pct |-> Fmt(Percent(avg), 6),
     annualized_pct |-> Fmt(Percent(annualize_rate(avg)), 2)]

\* f"funding_rates_{coin}_{timestamp}.csv"
FundingFileName(c, now) == <<"funding_rates", c, now>>

\* the test for "No data to save." inverted
SaveFundingInverted(dir, formatted, c, avg, now) ==
    IF formatted # <<>> THEN [files |-> dir, written |-> 0]
    ELSE [files |-> DictPut(dir, FundingFileName(c, now),
                            [rows |-> formatted, summary |-> CsvSummary(avg)]),
          written |-> 1]

\* save_to_csv(formatted, c, avg) at time now: the output directory after
\* the call and the number of files it opened for writing
SaveFunding(dir, formatted, c, avg, now) ==
    IF formatted = <<>> THEN [files |-> dir, written |-> 0]
    ELSE [files |-> DictPut(dir, FundingFileName(c, now),
                            [rows |-> formatted, summary |-> CsvSummary(avg)]),
          written |-> 1]

\* fundingHistory records of one coin, one per hour
FundingHistory(RateSet, maxLen) ==
    UNION {[1 .. n -> {[time |-> 0, fundingRate |-> r, premium |-> -2, coin |-> "BTC"] :
                         r \in RateSet}] : n \in 0 .. maxLen}

Timed(data) ==
    [i \in 1 .. Len(data) |-> [data[i] EXCEPT !.time = (i - 1) * 3600 * 1000 + 76]]

FundingHistories(RateSet, maxLen) == {Timed(d) : d \in FundingHistory(RateSet, maxLen)}

(***************************************************************************)
(* The functions of fundingrate.py applied to drawn inputs.                *)
(***************************************************************************)
InitRates ==
    /\ tool = "fundingrate"
    /\ pc = "format_funding_data"
    /\ raw_data \in FundingHistories({-7, 0, 13, 25}, MaxRecords)
    /\ clock = 0
    /\ coin = "BTC"
    /\ hours_back = 0
    /\ starting_amount = Zero
    /\ stock_ticker = ""
    /\ hl_ticker = ""
    /\ stock_data = <<>>
    /\ hl_candles = <<>>
    /\ funding_data = <<>>
    /\ aligned = <<>>
    /\ results = NoResults
    /\ formatted_data = <<>>
    /\ avg_rate = Zero
    /\ avg_annualized = Zero
    /\ requests = <<>>
    /\ files = EmptyDict
    /\ writes = 0
    /\ printed = "none"
    /\ queries = 0

CallFormat ==
    /\ pc = "format_funding_data"
    /\ formatted_data' = format_funding_data(raw_data)
    /\ pc' = "calculate_average_funding"
    /\ UNCHANGED <<tool, clock, coin, hours_back, starting_amount, stock_ticker,
                   hl_ticker, stock_data, hl_candles, funding_data, aligned,
                   results, raw_data, avg_rate, avg_annualized, requests,
                   files, writes, printed, queries>>

CallAverage ==
    /\ pc = "calculate_average_funding"
    /\ avg_rate' = calculate_average_funding(raw_data)
    /\ avg_annualized' = annualize_rate(avg_rate')
    /\ pc' = "save_to_csv"
    /\ UNCHANGED <<tool, clock, coin, hours_back, starting_amount, stock_ticker,
                   hl_ticker, stock_data, hl_candles, funding_data, aligned,
                   results, raw_data, formatted_data, requests, files, writes,
                   printed, queries>>

CallSave ==
    /\ pc = "save_to_csv"
    /\ LET saved == SaveFunding(files, formatted_data, coin, avg_rate, clock)
       IN  /\ files' = saved.files
           /\ writes' = writes + saved.written
           /\ printed' = IF saved.written = 0 THEN "no_data_to_save" ELSE printed
    /\ pc' = "returned"
    /\ UNCHANGED <<tool, clock, coin, hours_back, starting_amount, stock_ticker,
                   hl_ticker, stock_data, hl_candles, funding_data, aligned,
                   results, raw_data, formatted_data, avg_rate, avg_annualized,
                   requests, queries>>

NextRates == CallFormat \/ CallAverage \/ CallSave

SpecRates == InitRates /\ [][NextRates]_vars

\* the sum of the raw fundingRate numerals (millionths) of the first i records
RECURSIVE RawSum(_, _)
RawSum(data, i) == IF i = 0 THEN 0 ELSE RawSum(data, i - 1) + data[i].fundingRate

\* 8760 times a rate of num/den millionths, as a percentage in hundredths
ClaimedAnnualPct(num, den) == RoundHalfEven(Rat(8760 * num, den * 100))

\* C6: the annualized rate reported for each record is 8760 times the
\* record's fundingRate; the average is the arithmetic mean of the fundingRate
\* of all records (0 when there are none) and the annualized average, in the
\* summary and in the CSV, is 8760 times that mean.  Reported values are the
\* percentage with two decimals.
C6_Annualized ==
    /\ pc # "format_funding_data" =>
          /\ Len(formatted_data) = Len(raw_data)
          /\ \A i \in DOMAIN formatted_data :
                formatted_data[i].annualized_pct
                    = ClaimedAnnualPct(raw_data[i].fundingRate, 1)
    /\ pc \in {"save_to_csv", "returned"} =>
          /\ raw_data = <<>> => avg_rate = Zero
          /\ raw_data # <<>> =>
                avg_rate = Rat(RawSum(raw_data, Len(raw_data)), 1000000 * Len(raw_data))
          /\ avg_annualized
                = Rat(8760 * RawSum(raw_data, Len(raw_data)),
                      1000000 * (IF raw_data = <<>> THEN 1 ELSE Len(raw_data)))
    /\ pc = "returned" =>
          \A f \in DOMAIN files :
              files[f].summary.annualized_pct
                  = ClaimedAnnualPct(RawSum(raw_data, Len(raw_data)), Len(raw_data))

\* three records with different rates whose mean is not a whole number of
\* millionths, saved to a CSV file
C6_Witness ==
    /\ pc = "returned"
    /\ Len(raw_data) = 3
    /\ raw_data[1].fundingRate # raw_data[2].fundingRate
    /\ RawSum(raw_data, 3) % 3 # 0
    /\ files # EmptyDict

(***************************************************************************)
(* Text typed at the prompts, and the string functions applied to it.      *)
(***************************************************************************)
CoinTokens == {"quit", "QUIT", "  ", "btc", "xyz:copper"}
AmountTokens == {"quit", "abc", "0", "-5", "$1,000", "nan"}
StockTokens == {"  ", "spy"}
HlTokens == {"", "btc", "xyz:copper"}
HoursTokens == {"abc", "0", "-3", "24"}

\* str.strip()
Strip(t) == IF t = "  " THEN "" ELSE t

\* str.lower()
Lower(t) == IF t = "QUIT" THEN "quit" ELSE t

\* str.upper()
Upper(t) ==
    CASE t = "spy" -> "SPY"
      [] t = "btc" -> "BTC"
      [] t = "copper" -> "COPPER"
      [] OTHER -> t

\* "prefix:name" splits at the first colon; other text has none
HasColon(t) == t \in {"xyz:copper", "xyz:COPPER"}
Prefix(t) == "xyz"
Name(t) == IF t = "xyz:copper" THEN "copper" ELSE "COPPER"
Join(prefix, name) == IF name = "COPPER" THEN "xyz:COPPER" ELSE "xyz:copper"

format_coin_name(c) ==
    IF HasColon(c) THEN Join(Prefix(c), Upper(Name(c))) ELSE Upper(c)

\* str.replace(":", "_")
ReplaceColon(t) ==
    CASE t = "xyz:COPPER" -> "xyz_COPPER"
      [] t = "xyz:copper" -> "xyz_copper"
      [] OTHER -> t

\* str.replace(",", "").replace("$", "")
StripMoney(t) == IF t = "$1,000" THEN "1000" ELSE t

\* float(text): [ok |-> FALSE] stands for ValueError
FloatOfText(t) ==
    CASE t = "1000" -> [ok |-> TRUE, val |-> Rat(1000, 1)]
      [] t = "0" -> [ok |-> TRUE, val |-> Zero]
      [] t = "-5" -> [ok |-> TRUE, val |-> Rat(-5, 1)]
      [] t = "nan" -> [ok |-> TRUE, val |-> NaN]
      [] OTHER -> [ok |-> FALSE, val |-> Zero]

\* int(text): [ok |-> FALSE] stands for ValueError
IntOfText(t) ==
    CASE t = "24" -> [ok |-> TRUE, val |-> 24]
      [] t = "0" -> [ok |-> TRUE, val |-> 0]
      [] t = "-3" -> [ok |-> TRUE, val |-> -3]
      [] OTHER -> [ok |-> FALSE, val |-> 0]

(***************************************************************************)
(* The prompt loops of the two scripts.                                    *)
(***************************************************************************)
FirstPrompt(t) == IF t = "fundingrate" THEN "fr_prompt_coin" ELSE "arb_prompt_amount"

\* the loop body ends by leaving the loop
AfterQueryExit(t) == "done"

\* the end of the loop body: while True goes round again
AfterQuery(t) == FirstPrompt(t)

\* the except clauses tried without the one for HTTPError
HandleWithoutHTTPError(t, exc) ==
    IF t = "fundingrate"
    THEN IF exc = "ConnectionError"
         THEN [caught |-> TRUE, printed |-> "network_error"]
         ELSE [caught |-> FALSE, printed |-> "traceback"]
    ELSE IF exc = "HTTPError"
         THEN [caught |-> FALSE, printed |-> "traceback"]
         ELSE [caught |-> TRUE, printed |-> "error"]

\* the except clauses of main(); HTTPError and ConnectionError are
\* RequestExceptions, every exception raised here is an Exception
Handle(t, exc) ==
    IF t = "fundingrate"
    THEN IF exc = "HTTPError"
         THEN [caught |-> TRUE, printed |-> "api_error"]
         ELSE IF exc = "ConnectionError"
         THEN [caught |-> TRUE, printed |-> "network_error"]
         ELSE [caught |-> FALSE, printed |-> "traceback"]
    ELSE IF exc = "HTTPError"
         THEN [caught |-> TRUE, printed |-> "api_error"]
         ELSE [caught |-> TRUE, printed |-> "error"]

AfterException(t, exc) == IF Handle(t, exc).caught THEN AfterQuery(t) ELSE "crashed"

Request(to, type, outcome) == [to |-> to, type |-> type, outcome |-> outcome]

\* the clock advances while a script waits for input or for a response
Tick ==
    /\ pc \notin {"done", "crashed"}
    /\ clock < MaxClock
    /\ clock' = clock + 1
    /\ UNCHANGED <<tool, pc, coin, hours_back, starting_amount, stock_ticker,
                   hl_ticker, stock_data, hl_candles, funding_data, aligned,
                   results, raw_data, formatted_data, avg_rate, avg_annualized,
                   requests, files, writes, printed, queries>>

\* the names a new iteration binds afresh
NewIteration ==
    /\ requests' = <<>>
    /\ writes' = 0
    /\ hours_back' = 0
    /\ stock_ticker' = ""
    /\ hl_ticker' = ""
    /\ stock_data' = <<>>
    /\ hl_candles' = <<>>
    /\ funding_data' = <<>>
    /\ aligned' = <<>>
    /\ results' = NoResults
    /\ raw_data' = <<>>
    /\ formatted_data' = <<>>
    /\ avg_rate' = Zero
    /\ avg_annualized' = Zero

(***************************************************************************)
(* fundingrate.py: main                                                    *)
(***************************************************************************)
FR_PromptCoin ==
    /\ tool = "fundingrate"
    /\ pc = "fr_prompt_coin"
    /\ \E t \in CoinTokens :
          /\ coin' = Strip(t)
          /\ IF Lower(Strip(t)) = "quit"
             THEN printed' = "goodbye" /\ pc' = "done"
             ELSE IF Strip(t) = ""
             THEN printed' = "invalid_input" /\ pc' = "fr_prompt_coin"
             ELSE printed' = "none" /\ pc' = "fr_prompt_hours"
    /\ NewIteration
    /\ UNCHANGED <<tool, clock, starting_amount, files, queries>>

FR_PromptHours ==
    /\ tool = "fundingrate"
    /\ pc = "fr_prompt_hours"
    /\ \E t \in HoursTokens :
          LET r == IntOfText(Strip(t))
          IN  /\ (r.ok /\ r.val > 0) => queries < MaxQueries
              /\ IF ~r.ok
                 THEN /\ printed' = "invalid_input"
                      /\ pc' = "fr_prompt_coin"
                      /\ UNCHANGED <<hours_back, queries>>
                 ELSE IF r.val <= 0
                 THEN /\ hours_back' = r.val
                      /\ printed' = "invalid_input"
                      /\ pc' = "fr_prompt_coin"
                      /\ UNCHANGED queries
                 ELSE /\ hours_back' = r.val
                      /\ printed' = "fetching"
                      /\ pc' = "fr_fetch"
                      /\ queries' = queries + 1
    /\ UNCHANGED <<tool, clock, coin, starting_amount, stock_ticker, hl_ticker,
                   stock_data, hl_candles, funding_data, aligned, results,
                   raw_data, formatted_data, avg_rate, avg_annualized, requests,
                   files, writes>>

\* get_funding_history raises: raise_for_status or the connection
FR_FetchRaises ==
    /\ tool = "fundingrate"
    /\ pc = "fr_fetch"
    /\ \E exc \in {"HTTPError", "ConnectionError"} :
          /\ requests' = Append(requests, Request("hyperliquid", "fundingHistory", exc))
          /\ printed' = Handle(tool, exc).printed
          /\ pc' = AfterException(tool, exc)
    /\ UNCHANGED <<tool, clock, coin, hours_back, starting_amount, stock_ticker,
                   hl_ticker, stock_data, hl_candles, funding_data, aligned,
                   results, raw_data, formatted_data, avg_rate, avg_annualized,
                   files, writes, queries>>

\* get_funding_history returns []
FR_FetchEmpty ==
    /\ tool = "fundingrate"
    /\ pc = "fr_fetch"
    /\ requests' = Append(requests, Request("hyperliquid", "fundingHistory", "empty"))
    /\ raw_data' = <<>>
    /\ printed' = "no_data"
    /\ pc' = FirstPrompt(tool)
    /\ UNCHANGED <<tool, clock, coin, hours_back, starting_amount, stock_ticker,
                   hl_ticker, stock_data, hl_candles, funding_data, aligned,
                   results, formatted_data, avg_rate, avg_annualized, files,
                   writes, queries>>

\* the records the API returns for the coin asked for
FundingResponses(c) ==
    {[i \in 1 .. Len(d) |-> [d[i] EXCEPT !.coin = format_coin_name(c)]] :
        d \in FundingHistories({13}, 2) \ {<<>>}}

\* get_funding_history returns records: table, summary, CSV
FR_FetchData ==
    /\ tool = "fundingrate"
    /\ pc = "fr_fetch"
    /\ \E d \in FundingResponses(coin) :
          /\ raw_data' = d
          /\ formatted_data' = format_funding_data(d)
          /\ avg_rate' = calculate_average_funding(d)
          /\ avg_annualized' = annualize_rate(calculate_average_funding(d))
          /\ LET saved == SaveFunding(files, format_funding_data(d),
                                       ReplaceColon(format_coin_name(coin)),
                                       calculate_average_funding(d), clock)
             IN  /\ files' = saved.files
                 /\ writes' = writes + saved.written
                 /\ printed' = IF saved.written = 0 THEN "no_data_to_save" ELSE "saved"
    /\ requests' = Append(requests, Request("hyperliquid", "fundingHistory", "data"))
    /\ pc' = AfterQuery(tool)
    /\ UNCHANGED <<tool, clock, coin, hours_back, starting_amount, stock_ticker,
                   hl_ticker, stock_data, hl_candles, funding_data, aligned,
                   results, queries>>

(***************************************************************************)
(* spotstockarb.py: main                                                   *)
(***************************************************************************)
\* f"arb_{stock_ticker}_{safe_hl}_{timestamp}.csv"
ArbFileName(stock, hl, now) == <<"arb", stock, ReplaceColon(hl), now>>

\* the output directory after save_to_csv(rows, stock, hl, amount) at time
\* now; of the file's content the line "Total Hours" is kept
SaveArb(dir, rows, stock, hl, amount, now) ==
    DictPut(dir, ArbFileName(stock, hl, now),
            [hours |-> Len(rows), market_hours |-> MarketHours(rows)])

ARB_PromptAmount ==
    /\ tool = "spotstockarb"
    /\ pc = "arb_prompt_amount"
    /\ \E t \in AmountTokens :
          LET r == FloatOfText(StripMoney(Strip(t)))
          IN  IF Lower(Strip(t)) = "quit"
              THEN /\ printed' = "goodbye"
                   /\ pc' = "done"
                   /\ UNCHANGED starting_amount
              ELSE IF ~r.ok
              THEN /\ printed' = "invalid_input"
                   /\ pc' = "arb_prompt_amount"
                   /\ UNCHANGED starting_amount
              ELSE IF RLe(r.val, Zero)
              THEN /\ starting_amount' = r.val
                   /\ printed' = "invalid_input"
                   /\ pc' = "arb_prompt_amount"
              ELSE /\ starting_amount' = r.val
                   /\ printed' = "none"
                   /\ pc' = "arb_prompt_stock"
    /\ NewIteration
    /\ UNCHANGED <<tool, clock, coin, files, queries>>

ARB_PromptStock ==
    /\ tool = "spotstockarb"
    /\ pc = "arb_prompt_stock"
    /\ \E t \in StockTokens :
          /\ stock_ticker' = Upper(Strip(t))
          /\ IF Upper(Strip(t)) = ""
             THEN printed' = "invalid_input" /\ pc' = "arb_prompt_amount"
             ELSE printed' = "none" /\ pc' = "arb_prompt_hl"
    /\ UNCHANGED <<tool, clock, coin, hours_back, starting_amount, hl_ticker,
                   stock_data, hl_candles, funding_data, aligned, results,
                   raw_data, formatted_data, avg_rate, avg_annualized, requests,
                   files, writes, queries>>

ARB_PromptHl ==
    /\ tool = "spotstockarb"
    /\ pc = "arb_prompt_hl"
    /\ \E t \in HlTokens :
          /\ hl_ticker' = Strip(t)
          /\ IF Strip(t) = ""
             THEN printed' = "invalid_input" /\ pc' = "arb_prompt_amount"
             ELSE printed' = "none" /\ pc' = "arb_prompt_hours"
    /\ UNCHANGED <<tool, clock, coin, hours_back, starting_amount, stock_ticker,
                   stock_data, hl_candles, funding_data, aligned, results,
                   raw_data, formatted_data, avg_rate, avg_annualized, requests,
                   files, writes, queries>>

ARB_PromptHours ==
    /\ tool = "spotstockarb"
    /\ pc = "arb_prompt_hours"
    /\ \E t \in HoursTokens :
          LET r == IntOfText(Strip(t))
          IN  /\ (r.ok /\ r.val > 0) => queries < MaxQueries
              /\ IF ~r.ok
                 THEN /\ printed' = "invalid_input"
                      /\ pc' = "arb_prompt_amount"
                      /\ UNCHANGED <<hours_back, queries>>
                 ELSE IF r.val <= 0
                 THEN /\ hours_back' = r.val
                      /\ printed' = "invalid_input"
                      /\ pc' = "arb_prompt_amount"
                      /\ UNCHANGED queries
                 ELSE /\ hours_back' = r.val
                      /\ printed' = "fetching"
                      /\ pc' = "arb_fetch_stock"
                      /\ queries' = queries + 1
    /\ UNCHANGED <<tool, clock, coin, starting_amount, stock_ticker, hl_ticker,
                   stock_data, hl_candles, funding_data, aligned, results,
                   raw_data, formatted_data, avg_rate, avg_annualized, requests,
                   files, writes>>

\* the responses drawn in the prompt loop: one bar, one candle and at most
\* one funding record, in the first two hours
StockResponses ==
    {f \in StockFrames({<<1, 2>>}) : Len(f) = 1 /\ f[1].ts < 2 * 3600}
CandleResponses ==
    {c \in CandleLists({<<2, 1>>, <<0, 1>>}) : Len(c) = 1 /\ c[1].t < 2 * 3600 * 1000}
FundingListResponses ==
    {fd \in FundingLists({13}, 1) : \A i \in DOMAIN fd : fd[i].time < 3600 * 1000}

\* get_stock_data raises (yfinance), returns an empty frame, or returns bars
ARB_FetchStock ==
    /\ tool = "spotstockarb"
    /\ pc = "arb_fetch_stock"
    /\ \/ /\ requests' = Append(requests, Request("yahoo", "history", "Exception"))
          /\ printed' = Handle(tool, "Exception").printed
          /\ pc' = AfterException(tool, "Exception")
          /\ UNCHANGED stock_data
       \/ /\ requests' = Append(requests, Request("yahoo", "history", "empty"))
          /\ stock_data' = <<>>
          /\ printed' = "no_data"
          /\ pc' = FirstPrompt(tool)
       \/ \E f \in StockResponses :
             /\ requests' = Append(requests, Request("yahoo", "history", "data"))
             /\ stock_data' = f
             /\ printed' = "fetching"
             /\ pc' = "arb_fetch_candles"
    /\ UNCHANGED <<tool, clock, coin, hours_back, starting_amount, stock_ticker,
                   hl_ticker, hl_candles, funding_data, aligned, results,
                   raw_data, formatted_data, avg_rate, avg_annualized, files,
                   writes, queries>>

\* get_hl_candles raises, returns [], or returns candles
ARB_FetchCandles ==
    /\ tool = "spotstockarb"
    /\ pc = "arb_fetch_candles"
    /\ \/ \E exc \in {"HTTPError", "ConnectionError"} :
             /\ requests' = Append(requests, Request("hyperliquid", "candleSnapshot", exc))
             /\ printed' = Handle(tool, exc).printed
             /\ pc' = AfterException(tool, exc)
             /\ UNCHANGED hl_candles
       \/ /\ requests' = Append(requests, Request("hyperliquid", "candleSnapshot", "empty"))
          /\ hl_candles' = <<>>
          /\ printed' = "no_data"
          /\ pc' = FirstPrompt(tool)
       \/ \E c \in CandleResponses :
             /\ requests' = Append(requests, Request("hyperliquid", "candleSnapshot", "data"))
             /\ hl_candles' = c
             /\ printed' = "fetching"
             /\ pc' = "arb_fetch_funding"
    /\ UNCHANGED <<tool, clock, coin, hours_back, starting_amount, stock_ticker,
                   hl_ticker, stock_data, funding_data, aligned, results,
                   raw_data, formatted_data, avg_rate, avg_annualized, files,
                   writes, queries>>

\* get_hl_funding_history raises
ARB_FetchFundingRaises ==
    /\ tool = "spotstockarb"
    /\ pc = "arb_fetch_funding"
    /\ \E exc \in {"HTTPError", "ConnectionError"} :
          /\ requests' = Append(requests, Request("hyperliquid", "fundingHistory", exc))
          /\ printed' = Handle(tool, exc).printed
          /\ pc' = AfterException(tool, exc)
    /\ UNCHANGED <<tool, clock, coin, hours_back, starting_amount, stock_ticker,
                   hl_ticker, stock_data, hl_candles, funding_data, aligned,
                   results, raw_data, formatted_data, avg_rate, avg_annualized,
                   files, writes, queries>>

\* get_hl_funding_history returns (possibly no record): align_data, then
\* calculate_arb_pnl, the table, the summary and save_to_csv
ARB_FetchFunding ==
    /\ tool = "spotstockarb"
    /\ pc = "arb_fetch_funding"
    /\ \E fd \in FundingListResponses :
          LET a == align_data(stock_data, hl_candles, fd)
              r == calculate_arb_pnl(a, starting_amount)
          IN  /\ requests' = Append(requests,
                    Request("hyperliquid", "fundingHistory",
                            IF fd = <<>> THEN "empty" ELSE "data"))
              /\ funding_data' = fd
              /\ aligned' = a
              /\ IF a = <<>>
                 THEN /\ printed' = "no_overlap"
                      /\ pc' = FirstPrompt(tool)
                      /\ UNCHANGED <<results, files, writes>>
                 ELSE IF r.raised
                 THEN /\ printed' = Handle(tool, "ZeroDivisionError").printed
                      /\ pc' = AfterException(tool, "ZeroDivisionError")
                      /\ results' = r
                      /\ UNCHANGED <<files, writes>>
                 ELSE /\ results' = r
                      /\ files' = SaveArb(files, r.rows, stock_ticker,
                                          format_coin_name(hl_ticker),
                                          starting_amount, clock)
                      /\ writes' = writes + 1
                      /\ printed' = "saved"
                      /\ pc' = AfterQuery(tool)
    /\ UNCHANGED <<tool, clock, coin, hours_back, starting_amount, stock_ticker,
                   hl_ticker, stock_data, hl_candles, raw_data, formatted_data,
                   avg_rate, avg_annualized, queries>>

(***************************************************************************)
(* A run of either script.                                                 *)
(***************************************************************************)
Init ==
    /\ tool \in {"fundingrate", "spotstockarb"}
    /\ pc = FirstPrompt(tool)
    /\ starting_amount = Zero
    /\ stock_data = <<>>
    /\ hl_candles = <<>>
    /\ funding_data = <<>>
    /\ aligned = <<>>
    /\ results = NoResults
    /\ InitIdle

Next ==
    \/ Tick
    \/ FR_PromptCoin
    \/ FR_PromptHours
    \/ FR_FetchRaises
    \/ FR_FetchEmpty
    \/ FR_FetchData
    \/ ARB_PromptAmount
    \/ ARB_PromptStock
    \/ ARB_PromptHl
    \/ ARB_PromptHours
    \/ ARB_FetchStock
    \/ ARB_FetchCandles
    \/ ARB_FetchFundingRaises
    \/ ARB_FetchFunding

Spec == Init /\ [][Next]_vars

(***************************************************************************)
(* Claims about the prompt loops.                                          *)
(***************************************************************************)
FetchPcs == {"fr_fetch", "arb_fetch_stock", "arb_fetch_candles", "arb_fetch_funding"}

Exceptions == {"HTTPError", "ConnectionError", "Exception"}

LastRequest == requests[Len(requests)]

\* C3: when an exchange API request fails with an HTTP error, the error is
\* caught and reported, no CSV file is written for that query, and the
\* program is back at its first prompt instead of terminating.
C3_HTTPErrorCaught ==
    (requests # <<>> /\ LastRequest.outcome = "HTTPError") =>
        /\ printed = "api_error"
        /\ writes = 0
        /\ pc = FirstPrompt(tool)

\* an HTTP error in a query that follows a saved one
C3_Witness ==
    /\ requests # <<>>
    /\ LastRequest.outcome = "HTTPError"
    /\ files # EmptyDict
    /\ pc = FirstPrompt(tool)

\* the query of the current iteration produced at least one result row
ProducedRows ==
    IF tool = "fundingrate" THEN raw_data # <<>>
    ELSE aligned # <<>> /\ ~results.raised /\ results.rows # <<>>

ErrorRaised ==
    \/ \E i \in DOMAIN requests : requests[i].outcome \in Exceptions
    \/ results.raised

SomeFetchEmpty == \E i \in DOMAIN requests : requests[i].outcome = "empty"

\* a fetch whose empty result ends the query: every fetch but the funding
\* history of spotstockarb
RequiredFetchEmpty ==
    \E i \in DOMAIN requests :
        /\ requests[i].outcome = "empty"
        /\ tool = "spotstockarb" => requests[i].type # "fundingHistory"

\* C4 as claimed: exactly one CSV file is written when the query produced at
\* least one result row, and none when input was invalid, a fetch returned
\* no data, the alignment was empty or an error was raised.
C4_CsvIffRows ==
    /\ writes <= 1
    /\ ProducedRows => writes = 1
    /\ printed = "invalid_input" => writes = 0
    /\ SomeFetchEmpty => writes = 0
    /\ printed = "no_overlap" => writes = 0
    /\ ErrorRaised => writes = 0

\* C4 as amended: as claimed, except that of the fetches that return no data
\* only those that end the query count (fundingrate: the funding history;
\* spotstockarb: the stock bars or the candles); an empty funding history in
\* spotstockarb leaves every funding rate 0 and the CSV file is written.
C4_CsvIffRowsAmended ==
    /\ writes <= 1
    /\ ProducedRows => writes = 1
    /\ printed = "invalid_input" => writes = 0
    /\ RequiredFetchEmpty => writes = 0
    /\ printed = "no_overlap" => writes = 0
    /\ ErrorRaised => writes = 0
    /\ writes = 1 => ProducedRows

\* a query of spotstockarb whose funding history is empty and whose CSV file
\* is written, after an earlier saved query
C4_Witness ==
    /\ tool = "spotstockarb"
    /\ writes = 1
    /\ ProducedRows
    /\ SomeFetchEmpty
    /\ queries = 2
    /\ Cardinality(DOMAIN files) = 2

\* C7 as claimed: a run processes one query and then terminates, without
\* prompting for a further query.
C7_OneShot == (queries >= 1 /\ pc \notin FetchPcs) => pc = "done"

\* C7 as amended: each script is a prompt loop; when a query ends (saved, no
\* data, or a caught error) the script is back at its first prompt, and it
\* terminates only when 'quit' is entered at the first prompt.
C7_LoopsUntilQuit ==
    [][/\ (pc \in FetchPcs /\ pc' \notin FetchPcs) => pc' = FirstPrompt(tool)
       /\ (pc # "done" /\ pc' = "done") =>
             (pc = FirstPrompt(tool) /\ printed' = "goodbye")
       /\ pc' # "crashed"]_vars

\* two queries processed in one run, the second one saved, and the script
\* prompting again
C7_Witness ==
    /\ queries = 2
    /\ printed = "saved"
    /\ pc = FirstPrompt(tool)

Positive(a) == ~IsNaN(a) /\ a.n > 0

\* C8: no network request is issued in an iteration unless every input of
\* the iteration was valid (fundingrate: non-empty coin, hours > 0;
\* spotstockarb: starting amount > 0, non-empty tickers, hours > 0); an
\* invalid input sends the program back to its first prompt.
C8_RequestsNeedValidInputs ==
    /\ requests # <<>> =>
          /\ hours_back > 0
          /\ tool = "fundingrate" => coin # ""
          /\ tool = "spotstockarb" =>
                /\ Positive(starting_amount)
                /\ stock_ticker # ""
                /\ hl_ticker # ""
    /\ printed = "invalid_input" => (pc = FirstPrompt(tool) /\ requests = <<>>)

\* a step in which save_to_csv opens a file for writing
SavesFile == writes' = writes + 1

\* C11: within one run, the CSV file written by a successful query is never
\* overwritten by a later query: every successful query of the run (also a
\* second query for the same coin or ticker pair within the same clock
\* second) is saved under a file name no earlier query of the run used.
C11_NeverOverwritten ==
    [][SavesFile =>
          /\ DOMAIN files \subseteq DOMAIN files'
          /\ Cardinality(DOMAIN files') = Cardinality(DOMAIN files) + 1
          /\ \A name \in DOMAIN files : files'[name] = files[name]]_vars

====
